---- MODULE Spec2Model ----
(***************************************************************************)
(* Model of the UK earthquake analysis: the loader get_data of             *)
(* earthquakes.py (cache file, remote feed, json), the module-level code   *)
(* that earthquakes.py runs when it is imported, and the pipeline of       *)
(* earthquake_analysis.py (extract, analyze by year, summary, chart).      *)
(*                                                                         *)
(* Conventions.                                                            *)
(*  - A JSON document is a sequence of tokens; json.dump writes it and     *)
(*    json.load / json.loads parse it with a recursive-descent parser.     *)
(*    A JSON object is a function from strings, an array is a sequence.    *)
(*  - properties.time is held in seconds, the value timestamp_ms / 1000    *)
(*    that is handed to datetime.fromtimestamp: millisecond values of the  *)
(*    years 2000..2018 do not fit TLC's 32-bit integers.  Local time is    *)
(*    taken to be UTC.                                                     *)
(*  - A magnitude is held in tenths (20 is 2.0); a mean is an exact        *)
(*    fraction [num, den] in lowest terms.                                 *)
(*  - mode says who drives the code: "run" is python earthquake_analysis.py*)
(*    "client" is a caller of get_data with flags of its choice, "agg" is  *)
(*    a caller of analyze_earthquakes_by_year / print_summary_statistics   *)
(*    with arrays of its choice.                                           *)
(***************************************************************************)
EXTENDS Integers, Sequences, FiniteSets, TLC

VARIABLES
    mode,            \* "run", "client" or "agg"
    pc,              \* position of the caller
    stages,          \* steps of main() that have completed, in order
    cache,           \* earthquake_data.json: [kind, text]
    gd,              \* position inside get_data
    use_local_file,  \* argument of the current get_data call
    save_to_file,    \* argument of the current get_data call
    response,        \* response.text of the remote query
    result,          \* value returned by get_data
    error,           \* the exception that was raised, "none" if none
    calls,           \* number of get_data invocations
    cacheReads,      \* number of open(filename, 'r') attempts
    remoteQueries,   \* number of requests.get calls
    persisted,       \* the record set the last successful save wrote
    explored,        \* what the module-level code of earthquakes.py computed
    data,            \* main(): data
    years,           \* years array
    magnitudes,      \* magnitudes array
    unique_years,    \* analyze_earthquakes_by_year: unique_years
    frequency_per_year,
    avg_magnitude_per_year,
    summary,         \* the years print_summary_statistics reports
    chart            \* earthquake_analysis_combined.png

vars == <<mode, pc, stages, cache, gd, use_local_file, save_to_file, response,
          result, error, calls, cacheReads, remoteQueries, persisted,
          explored, data, years, magnitudes, unique_years,
          frequency_per_year, avg_magnitude_per_year, summary, chart>>

loaderVars == <<cache, gd, use_local_file, save_to_file, response, result,
                calls, cacheReads, remoteQueries, persisted>>

aggVars == <<years, magnitudes, unique_years, frequency_per_year,
             avg_magnitude_per_year, summary>>

(***************************************************************************)
(* Bounds                                                                  *)
(***************************************************************************)
\* largest number of features in a record set
MaxFeatures == 2
\* largest length of the arrays handed to analyze_earthquakes_by_year
MaxLen == 3
\* largest number of get_data calls a client makes
MaxCalls == 2

\* (time in seconds, magnitude in tenths, <<longitude, latitude, altitude>>)
Quakes ==
    { <<978307199, 40, <<-5, 56, 7>> >>,       \* 2000-12-31 23:59:59
      <<978307200, 30, <<0, 51, 12>> >>,       \* 2001-01-01 00:00:00
      <<1050000000, 20, <<-2, 53, 3>> >> }     \* 2003-04-10

YearValues == {2000, 2001, 2003}

MagValues == {20, 30, 40}

(***************************************************************************)
(* JSON values and documents                                               *)
(***************************************************************************)
EmptyObj == [k \in {} |-> 0]

Punct(p) == [k |-> p, s |-> "", n |-> 0]

Str(x) == [k |-> "str", s |-> x, n |-> 0]

Num(i) == [k |-> "num", s |-> "", n |-> i]

Feature(q) ==
    [properties |-> [time |-> q[1], mag |-> q[2]],
     geometry |-> [coordinates |-> q[3]]]

Features == { Feature(q) : q \in Quakes }

SeqsUpTo(S, n) == UNION { [1..k -> S] : k \in 0..n }

DataSets == { [features |-> fs] : fs \in SeqsUpTo(Features, MaxFeatures) }

RECURSIVE DumpList(_)
\* json.dump of a list: the dumped items separated by commas
DumpList(chunks) ==
    IF chunks = <<>> THEN <<>>
    ELSE IF Len(chunks) = 1 THEN chunks[1]
    ELSE chunks[1] \o <<Punct(",")>> \o DumpList(Tail(chunks))

DumpNum(i) == <<Num(i)>>

DumpFeatureNoAltitude(f) ==
    <<Punct("{"), Str("properties"), Punct(":"),
        Punct("{"), Str("time"), Punct(":"), Num(f.properties.time), Punct(","),
                    Str("mag"), Punct(":"), Num(f.properties.mag), Punct("}"),
      Punct(","), Str("geometry"), Punct(":"),
        Punct("{"), Str("coordinates"), Punct(":"), Punct("[")>>
    \o DumpList([i \in 1..2 |-> DumpNum(f.geometry.coordinates[i])])
    \o <<Punct("]"), Punct("}"), Punct("}")>>

DumpFeature(f) ==
    <<Punct("{"), Str("properties"), Punct(":"),
        Punct("{"), Str("time"), Punct(":"), Num(f.properties.time), Punct(","),
                    Str("mag"), Punct(":"), Num(f.properties.mag), Punct("}"),
      Punct(","), Str("geometry"), Punct(":"),
        Punct("{"), Str("coordinates"), Punct(":"), Punct("[")>>
    \o DumpList([i \in 1..Len(f.geometry.coordinates) |-> DumpNum(f.geometry.coordinates[i])])
    \o <<Punct("]"), Punct("}"), Punct("}")>>

\* json.dump(data, f, indent=2) of a value json.loads returned
Dump(d) ==
    IF "features" \in DOMAIN d
    THEN <<Punct("{"), Str("features"), Punct(":"), Punct("[")>>
         \o DumpList([i \in 1..Len(d.features) |-> DumpFeature(d.features[i])])
         \o <<Punct("]"), Punct("}")>>
    ELSE <<Punct("{"), Punct("}")>>

ParseFail == [ok |-> FALSE, val |-> 0, rest |-> <<>>]

RECURSIVE ParseValue(_), ParseElements(_, _), ParseMembers(_, _)
\* one JSON value at the head of toks: [ok, val, rest]
ParseValue(toks) ==
    IF toks = <<>> THEN ParseFail
    ELSE LET t == Head(toks) IN
         CASE t.k = "num" -> [ok |-> TRUE, val |-> t.n, rest |-> Tail(toks)]
           [] t.k = "str" -> [ok |-> TRUE, val |-> t.s, rest |-> Tail(toks)]
           [] t.k = "[" ->
                IF Len(toks) >= 2 /\ toks[2].k = "]"
                THEN [ok |-> TRUE, val |-> <<>>, rest |-> SubSeq(toks, 3, Len(toks))]
                ELSE ParseElements(Tail(toks), <<>>)
           [] t.k = "{" ->
                IF Len(toks) >= 2 /\ toks[2].k = "}"
                THEN [ok |-> TRUE, val |-> EmptyObj, rest |-> SubSeq(toks, 3, Len(toks))]
                ELSE ParseMembers(Tail(toks), EmptyObj)
           [] OTHER -> ParseFail

\* value (, value)* ]
ParseElements(toks, acc) ==
    LET v == ParseValue(toks) IN
    IF ~v.ok \/ v.rest = <<>> THEN ParseFail
    ELSE LET sep == Head(v.rest) IN
         IF sep.k = "]"
         THEN [ok |-> TRUE, val |-> Append(acc, v.val), rest |-> Tail(v.rest)]
         ELSE IF sep.k = ","
         THEN ParseElements(Tail(v.rest), Append(acc, v.val))
         ELSE ParseFail

\* "key" : value (, "key" : value)* }    a repeated key keeps the last value
ParseMembers(toks, acc) ==
    IF Len(toks) < 3 \/ toks[1].k # "str" \/ toks[2].k # ":" THEN ParseFail
    ELSE LET v == ParseValue(SubSeq(toks, 3, Len(toks))) IN
         IF ~v.ok \/ v.rest = <<>> THEN ParseFail
         ELSE LET sep == Head(v.rest)
                  obj == (toks[1].s :> v.val) @@ acc
              IN IF sep.k = "}"
                 THEN [ok |-> TRUE, val |-> obj, rest |-> Tail(v.rest)]
                 ELSE IF sep.k = ","
                 THEN ParseMembers(Tail(v.rest), obj)
                 ELSE ParseFail

\* json.loads(text) / json.load(f): the whole text must be one value
Loads(text) ==
    LET r == ParseValue(text) IN
    [ok |-> r.ok /\ r.rest = <<>>, val |-> IF r.ok /\ r.rest = <<>> THEN r.val ELSE EmptyObj]

\* a body that is cut off, as an interrupted transfer or write leaves it
Truncated == <<Punct("{"), Str("features"), Punct(":")>>

\* the feed's own text of one feature (the feed writes geometry first)
FeedFeature(f) ==
    <<Punct("{"), Str("geometry"), Punct(":"),
        Punct("{"), Str("coordinates"), Punct(":"), Punct("["),
            Num(f.geometry.coordinates[1]), Punct(","),
            Num(f.geometry.coordinates[2]), Punct(","),
            Num(f.geometry.coordinates[3]), Punct("]"), Punct("}"),
      Punct(","), Str("properties"), Punct(":"),
        Punct("{"), Str("mag"), Punct(":"), Num(f.properties.mag), Punct(","),
                    Str("time"), Punct(":"), Num(f.properties.time), Punct("}"),
      Punct("}")>>

\* the feed's answer for a record set
FeedBody(d) ==
    <<Punct("{"), Str("features"), Punct(":"), Punct("[")>>
    \o DumpList([i \in 1..Len(d.features) |-> FeedFeature(d.features[i])])
    \o <<Punct("]"), Punct("}")>>

\* bodies the feed can answer with, and texts the cache file can hold:
\* a record set, an object without features, a cut-off body
Documents ==
    { FeedBody(d) : d \in DataSets }
    \cup { <<Punct("{"), Punct("}")>>, Truncated }

\* earthquake_data.json: absent, a readable regular file, or a path that
\* cannot be opened at all (a directory, no permission)
CacheStates ==
    { [kind |-> "absent", text |-> <<>>], [kind |-> "blocked", text |-> <<>>] }
    \cup { [kind |-> "file", text |-> t] : t \in Documents }

(***************************************************************************)
(* earthquakes.py: get_data                                                *)
(***************************************************************************)
NotPersisted == [valid |-> FALSE, data |-> EmptyObj]

\* what an interrupted json.dump can leave in the file that open(.., 'w')
\* has truncated
PartialTexts(text) == { SubSeq(text, 1, k) : k \in {0, Len(text) \div 2} }

AlwaysSave(flag) == TRUE

\* line 48: if save_to_file
ShouldSave(flag) == flag

\* a caller enters get_data(use_local_file=ul, save_to_file=sv)
CallGetData(ul, sv) ==
    /\ gd' = "entry"
    /\ use_local_file' = ul
    /\ save_to_file' = sv
    /\ calls' = calls + 1
    /\ response' = <<>>
    /\ result' = EmptyObj
    /\ error' = "none"
    /\ UNCHANGED <<cache, cacheReads, remoteQueries, persisted>>

\* lines 19-27: the cache is tried; only FileNotFoundError is caught
GetDataLocal ==
    /\ gd = "entry"
    /\ UNCHANGED <<mode, pc, stages, cache, use_local_file, save_to_file,
                   response, calls, remoteQueries, persisted, explored, data,
                   aggVars, chart>>
    /\ IF use_local_file
       THEN /\ cacheReads' = cacheReads + 1
            /\ CASE cache.kind = "absent" ->
                      gd' = "fetch" /\ UNCHANGED <<result, error>>
                 [] cache.kind = "blocked" ->
                      gd' = "raised" /\ error' = "read:OSError" /\ UNCHANGED result
                 [] cache.kind = "file" ->
                      LET r == Loads(cache.text) IN
                      IF r.ok
                      THEN gd' = "returned" /\ result' = r.val /\ UNCHANGED error
                      ELSE gd' = "raised" /\ error' = "read:JSONDecodeError"
                           /\ UNCHANGED result
       ELSE gd' = "fetch" /\ UNCHANGED <<cacheReads, result, error>>

\* lines 30-42: one requests.get, no timeout, no retry
GetDataFetch ==
    /\ gd = "fetch"
    /\ remoteQueries' = remoteQueries + 1
    /\ UNCHANGED <<mode, pc, stages, cache, use_local_file, save_to_file,
                   result, calls, cacheReads, persisted, explored, data,
                   aggVars, chart>>
    /\ \/ gd' = "raised" /\ error' = "fetch:ConnectionError" /\ UNCHANGED response
       \/ \E body \in Documents :
             gd' = "parse" /\ response' = body /\ UNCHANGED error

\* lines 45-53: json.loads, the optional save, return data
GetDataParse ==
    /\ gd = "parse"
    /\ UNCHANGED <<mode, pc, stages, use_local_file, save_to_file, response,
                   calls, cacheReads, remoteQueries, explored, data, aggVars,
                   chart>>
    /\ LET r == Loads(response) IN
       IF ~r.ok
       THEN gd' = "raised" /\ error' = "parse:JSONDecodeError"
            /\ UNCHANGED <<cache, result, persisted>>
       ELSE IF ~ShouldSave(save_to_file)
       THEN gd' = "returned" /\ result' = r.val
            /\ UNCHANGED <<cache, error, persisted>>
       ELSE \/ /\ cache.kind # "blocked"        \* written and closed
               /\ cache' = [kind |-> "file", text |-> Dump(r.val)]
               /\ persisted' = [valid |-> TRUE, data |-> r.val]
               /\ gd' = "returned" /\ result' = r.val /\ UNCHANGED error
            \/ /\ gd' = "raised" /\ error' = "save:OSError"  \* open fails
               /\ UNCHANGED <<cache, result, persisted>>
            \/ /\ cache.kind # "blocked"        \* the write fails part way
               /\ \E t \in PartialTexts(Dump(r.val)) :
                     cache' = [kind |-> "file", text |-> t]
               /\ persisted' = NotPersisted
               /\ gd' = "raised" /\ error' = "save:OSError"
               /\ UNCHANGED result

(***************************************************************************)
(* earthquakes.py: the helpers and the module-level code                   *)
(***************************************************************************)
RECURSIVE GCD(_, _)
GCD(a, b) == IF b = 0 THEN a ELSE GCD(b, a % b)

\* the exact value n / d in lowest terms; 0 / 0 stands for nan
Frac(n, d) ==
    IF d = 0 THEN [num |-> 0, den |-> 0]
    ELSE [num |-> n \div GCD(n, d), den |-> d \div GCD(n, d)]

\* a < b for exact fractions with positive denominators
Less(a, b) == a.num * b.den < b.num * a.den

ArgMaxLast(xs) ==
    LET best[i \in 1..Len(xs)] ==
            IF i = 1 THEN 1
            ELSE IF ~Less(xs[i], xs[best[i - 1]]) THEN i ELSE best[i - 1]
    IN best[Len(xs)]

\* np.argmax / max(..., key=...): the first position of the greatest value
\* (positions count from 1 here)
ArgMax(xs) ==
    LET best[i \in 1..Len(xs)] ==
            IF i = 1 THEN 1
            ELSE IF Less(xs[best[i - 1]], xs[i]) THEN i ELSE best[i - 1]
    IN best[Len(xs)]

\* np.argmin: the first position of the least value
ArgMin(xs) ==
    LET best[i \in 1..Len(xs)] ==
            IF i = 1 THEN 1
            ELSE IF Less(xs[i], xs[best[i - 1]]) THEN i ELSE best[i - 1]
    IN best[Len(xs)]

Whole(ns) == [i \in 1..Len(ns) |-> [num |-> ns[i], den |-> 1]]

count_earthquakes(d) == Len(d.features)

get_magnitude(earthquake) == earthquake.properties.mag

get_location(earthquake) ==
    <<earthquake.geometry.coordinates[2], earthquake.geometry.coordinates[1]>>

get_maximum(d) ==
    LET mags == [i \in 1..Len(d.features) |-> get_magnitude(d.features[i])]
        max_earthquake == d.features[ArgMax(Whole(mags))]
    IN <<get_magnitude(max_earthquake), get_location(max_earthquake)>>

NotExplored == [count |-> 0, maximum |-> <<0, <<0, 0>> >>]

\* a caller of get_data sees its exception: nothing catches it
Propagate ==
    /\ pc \in {"module_load", "load"}
    /\ gd = "raised"
    /\ pc' = "crashed"
    /\ gd' = "idle"
    /\ UNCHANGED <<mode, stages, cache, use_local_file, save_to_file, response,
                   result, error, calls, cacheReads, remoteQueries, persisted,
                   explored, data, aggVars, chart>>

\* earthquake_analysis.py line 4 runs earthquakes.py, whose line 82 loads
ImportModule ==
    /\ pc = "import"
    /\ pc' = "module_load"
    /\ CallGetData(TRUE, FALSE)
    /\ UNCHANGED <<mode, stages, explored, data, aggVars, chart>>

\* earthquakes.py lines 82-92
ModuleExplore ==
    /\ pc = "module_load"
    /\ gd = "returned"
    /\ gd' = "idle"
    /\ UNCHANGED <<mode, stages, cache, use_local_file, save_to_file, response,
                   result, calls, cacheReads, remoteQueries, persisted, data,
                   aggVars, chart>>
    /\ IF "features" \notin DOMAIN result
       THEN pc' = "crashed" /\ error' = "module:KeyError" /\ UNCHANGED explored
       ELSE IF result.features = <<>>
       THEN pc' = "crashed" /\ error' = "module:IndexError" /\ UNCHANGED explored
       ELSE /\ explored' = [count |-> count_earthquakes(result),
                            maximum |-> get_maximum(result)]
            /\ pc' = "main"
            /\ UNCHANGED error

(***************************************************************************)
(* earthquake_analysis.py                                                  *)
(***************************************************************************)
IsLeap(y) == (y % 4 = 0 /\ y % 100 # 0) \/ y % 400 = 0

DaysIn(y) == IF IsLeap(y) THEN 366 ELSE 365

RECURSIVE YearFrom(_, _)
YearFrom(y, days) ==
    IF days < DaysIn(y) THEN y ELSE YearFrom(y + 1, days - DaysIn(y))

\* datetime.fromtimestamp(seconds).year
YearOf(seconds) == YearFrom(1970, seconds \div 86400)

\* lines 7-30
extract_earthquake_data(d) ==
    <<[i \in 1..Len(d.features) |-> YearOf(d.features[i].properties.time)],
      [i \in 1..Len(d.features) |-> d.features[i].properties.mag]>>

RECURSIVE Ascending(_)
Ascending(S) ==
    IF S = {} THEN <<>>
    ELSE LET least == CHOOSE x \in S : \A y \in S : x <= y
         IN <<least>> \o Ascending(S \ {least})

RECURSIVE InOrderOfAppearance(_)
InOrderOfAppearance(ar) ==
    IF ar = <<>> THEN <<>>
    ELSE LET front == InOrderOfAppearance(SubSeq(ar, 1, Len(ar) - 1))
             last == ar[Len(ar)]
         IN IF \E i \in 1..Len(front) : front[i] = last
            THEN front ELSE Append(front, last)

\* np.unique(ar): the distinct values, sorted
Unique(ar) == Ascending({ ar[i] : i \in 1..Len(ar) })

RECURSIVE Sum(_)
Sum(xs) == IF xs = <<>> THEN 0 ELSE Head(xs) + Sum(Tail(xs))

SumOnly(xs) == Frac(Sum(xs), 1)

\* np.mean(xs)
Mean(xs) == Frac(Sum(xs), Len(xs))

RECURSIVE BoolIndex(_, _)
\* xs[mask] for a boolean mask of the same length
BoolIndex(xs, mask) ==
    IF xs = <<>> THEN <<>>
    ELSE (IF Head(mask) THEN <<Head(xs)>> ELSE <<>>)
         \o BoolIndex(Tail(xs), Tail(mask))

\* lines 33-60
analyze_earthquakes_by_year(ys, ms) ==
    LET uy == Unique(ys)
        year_magnitudes(year) ==
            BoolIndex(ms, [k \in 1..Len(ys) |-> ys[k] = year])
    IN <<uy,
         [i \in 1..Len(uy) |-> Len(year_magnitudes(uy[i]))],
         [i \in 1..Len(uy) |-> Mean(year_magnitudes(uy[i]))]>>

NoSummary ==
    [first |-> 0, last |-> 0, total_years |-> 0, total |-> 0,
     most |-> 0, fewest |-> 0, highest |-> 0, lowest |-> 0]

\* lines 114-129: the values that are printed
print_summary_statistics(ys, frequency, avg_magnitude) ==
    [first |-> ys[1], last |-> ys[Len(ys)], total_years |-> Len(ys),
     total |-> Sum(frequency),
     most |-> ys[ArgMax(Whole(frequency))],
     fewest |-> ys[ArgMin(Whole(frequency))],
     highest |-> ys[ArgMax(avg_magnitude)],
     lowest |-> ys[ArgMin(avg_magnitude)]]

NoChart == [written |-> FALSE, years |-> <<>>, frequency |-> <<>>,
            avg_magnitude |-> <<>>]

PlotBeforeSummary == <<"load", "extract", "analyze", "plot", "summary">>

\* main(), lines 139-153: the order of its steps
MainOrder == <<"load", "extract", "analyze", "summary", "plot">>

\* a direct caller of the aggregation: lines 147-150
AggOrder == <<"analyze", "summary">>

\* the position after step s
After(s) ==
    LET order == IF mode = "run" THEN MainOrder ELSE AggOrder
        i == CHOOSE k \in 1..Len(order) : order[k] = s
    IN IF i = Len(order) THEN "done" ELSE order[i + 1]

\* line 139
MainGetData ==
    /\ pc = "main"
    /\ pc' = MainOrder[1]
    /\ CallGetData(TRUE, FALSE)
    /\ UNCHANGED <<mode, stages, explored, data, aggVars, chart>>

\* lines 139-141: data = ...; len(data['features'])
MainLoaded ==
    /\ pc = "load"
    /\ gd = "returned"
    /\ gd' = "idle"
    /\ data' = result
    /\ UNCHANGED <<mode, cache, use_local_file, save_to_file, response, result,
                   calls, cacheReads, remoteQueries, persisted, explored,
                   aggVars, chart>>
    /\ IF "features" \notin DOMAIN result
       THEN pc' = "crashed" /\ error' = "main:KeyError" /\ UNCHANGED stages
       ELSE pc' = After("load") /\ stages' = Append(stages, "load")
            /\ UNCHANGED error

\* line 144
Extract ==
    /\ pc = "extract"
    /\ years' = extract_earthquake_data(data)[1]
    /\ magnitudes' = extract_earthquake_data(data)[2]
    /\ pc' = After("extract")
    /\ stages' = Append(stages, "extract")
    /\ UNCHANGED <<mode, loaderVars, error, explored, data, unique_years,
                   frequency_per_year, avg_magnitude_per_year, summary, chart>>

\* line 147
Analyze ==
    /\ pc = "analyze"
    /\ unique_years' = analyze_earthquakes_by_year(years, magnitudes)[1]
    /\ frequency_per_year' = analyze_earthquakes_by_year(years, magnitudes)[2]
    /\ avg_magnitude_per_year' = analyze_earthquakes_by_year(years, magnitudes)[3]
    /\ pc' = After("analyze")
    /\ stages' = Append(stages, "analyze")
    /\ UNCHANGED <<mode, loaderVars, error, explored, data, years, magnitudes,
                   summary, chart>>

\* line 150; years[0] of an empty array raises IndexError
PrintSummary ==
    /\ pc = "summary"
    /\ UNCHANGED <<mode, loaderVars, explored, data, years, magnitudes,
                   unique_years, frequency_per_year, avg_magnitude_per_year,
                   chart>>
    /\ IF unique_years = <<>>
       THEN pc' = "crashed" /\ error' = "summary:IndexError"
            /\ UNCHANGED <<stages, summary>>
       ELSE /\ summary' = print_summary_statistics(unique_years,
                              frequency_per_year, avg_magnitude_per_year)
            /\ pc' = After("summary")
            /\ stages' = Append(stages, "summary")
            /\ UNCHANGED error

\* line 153; years[0] of an empty array raises IndexError before savefig
CreatePlots ==
    /\ pc = "plot"
    /\ UNCHANGED <<mode, loaderVars, explored, data, aggVars>>
    /\ IF unique_years = <<>>
       THEN pc' = "crashed" /\ error' = "plot:IndexError"
            /\ UNCHANGED <<stages, chart>>
       ELSE /\ chart' = [written |-> TRUE, years |-> unique_years,
                         frequency |-> frequency_per_year,
                         avg_magnitude |-> avg_magnitude_per_year]
            /\ pc' = After("plot")
            /\ stages' = Append(stages, "plot")
            /\ UNCHANGED error

\* a caller other than the entry point uses get_data with flags of its choice
ClientCall ==
    /\ mode = "client"
    /\ gd \in {"idle", "returned", "raised"}
    /\ calls < MaxCalls
    /\ \E ul \in BOOLEAN, sv \in BOOLEAN : CallGetData(ul, sv)
    /\ UNCHANGED <<mode, pc, stages, explored, data, aggVars, chart>>

(***************************************************************************)
(* Specification                                                           *)
(***************************************************************************)
ArrayPairs ==
    { <<ys, ms>> : ys \in SeqsUpTo(YearValues, MaxLen),
                   ms \in SeqsUpTo(MagValues, MaxLen) }

Init ==
    /\ mode \in {"run", "client", "agg"}
    /\ pc = CASE mode = "run" -> "import"
              [] mode = "client" -> "client"
              [] mode = "agg" -> AggOrder[1]
    /\ stages = <<>>
    /\ cache \in IF mode = "agg" THEN {[kind |-> "absent", text |-> <<>>]}
                 ELSE CacheStates
    /\ gd = "idle"
    /\ use_local_file = FALSE
    /\ save_to_file = FALSE
    /\ response = <<>>
    /\ result = EmptyObj
    /\ error = "none"
    /\ calls = 0
    /\ cacheReads = 0
    /\ remoteQueries = 0
    /\ persisted = NotPersisted
    /\ explored = NotExplored
    /\ data = EmptyObj
    /\ \E p \in ArrayPairs :
          /\ Len(p[1]) = Len(p[2])
          /\ mode # "agg" => p[1] = <<>>
          /\ years = p[1]
          /\ magnitudes = p[2]
    /\ unique_years = <<>>
    /\ frequency_per_year = <<>>
    /\ avg_magnitude_per_year = <<>>
    /\ summary = NoSummary
    /\ chart = NoChart

Next ==
    \/ ImportModule
    \/ ModuleExplore
    \/ MainGetData
    \/ GetDataLocal
    \/ GetDataFetch
    \/ GetDataParse
    \/ Propagate
    \/ MainLoaded
    \/ Extract
    \/ Analyze
    \/ PrintSummary
    \/ CreatePlots
    \/ ClientCall

Spec == Init /\ [][Next]_vars

(***************************************************************************)
(* Properties                                                              *)
(***************************************************************************)
Range(xs) == { xs[i] : i \in 1..Len(xs) }

Completed(step) == step \in Range(stages)

\* the positions of the input whose year is y
PositionsOf(y) == { k \in 1..Len(years) : years[k] = y }

RECURSIVE SumAt(_, _)
SumAt(xs, K) ==
    IF K = {} THEN 0
    ELSE LET k == CHOOSE j \in K : TRUE IN xs[k] + SumAt(xs, K \ {k})

\* C1: for non-empty equal-length years and magnitudes, the years that
\* analyze_earthquakes_by_year returns are exactly the distinct values of
\* years, as many as there are distinct values, in strictly ascending order.
C1_DistinctYearsAscending ==
    (Completed("analyze") /\ years # <<>>) =>
        /\ Len(unique_years) = Cardinality(Range(years))
        /\ Range(unique_years) = Range(years)
        /\ \A i, j \in 1..Len(unique_years) :
              i < j => unique_years[i] < unique_years[j]

C1_Witness ==
    /\ Completed("analyze")
    /\ Len(years) = 3
    /\ years[1] > years[2]
    /\ years[3] = years[1]
    /\ Len(unique_years) = 2

\* C2: for the year at each position i of the output, frequency[i] is the
\* number of input positions holding that year (at least 1) and
\* avg_magnitude[i] is the sum of the magnitudes at exactly those positions
\* divided by that number; the frequencies add up to the number of records.
C2_CountAndMeanPerYear ==
    Completed("analyze") =>
        /\ Len(frequency_per_year) = Len(unique_years)
        /\ Len(avg_magnitude_per_year) = Len(unique_years)
        /\ \A i \in 1..Len(unique_years) :
              LET K == PositionsOf(unique_years[i]) IN
              /\ frequency_per_year[i] = Cardinality(K)
              /\ frequency_per_year[i] >= 1
              /\ avg_magnitude_per_year[i].den > 0
              /\ avg_magnitude_per_year[i].num * Cardinality(K)
                    = SumAt(magnitudes, K) * avg_magnitude_per_year[i].den
        /\ Sum(frequency_per_year) = Len(years)

C2_Witness ==
    /\ Completed("analyze")
    /\ Len(years) = 3
    /\ Len(unique_years) = 2
    /\ frequency_per_year = <<1, 2>>
    /\ years[1] = years[3]
    /\ magnitudes[1] # magnitudes[3]

\* C3: analyze_earthquakes_by_year never returns to its caller when it was
\* handed empty arrays (it raises a "no data" error instead).
C3_EmptyInputIsRejected ==
    years = <<>> => ~Completed("analyze")

\* C4: a failure to read the cache file, whatever its cause, is never
\* surfaced by get_data(use_local_file = true): it goes on to the remote query.
C4_CacheReadFailureFallsBack ==
    error \notin {"read:OSError", "read:JSONDecodeError"}

\* C5: a failure to write the cache file after a successful fetch is not
\* fatal: get_data raises nothing and returns the fetched record set.
C5_SaveFailureIsNotFatal ==
    error # "save:OSError"

\* C6: one run of the entry point invokes get_data exactly once, hence reads
\* the cache at most once and queries the feed at most once.
C6_OneLoadPerRun ==
    mode = "run" =>
        /\ calls <= 1
        /\ cacheReads <= 1
        /\ remoteQueries <= 1
        /\ pc = "done" => calls = 1

IsGreatest(xs, i) == \A j \in 1..Len(xs) : ~Less(xs[i], xs[j])

IsLeast(xs, i) == \A j \in 1..Len(xs) : ~Less(xs[j], xs[i])

\* C7: each of the four extremum years print_summary_statistics reports is
\* the earliest year (the first in ascending order) that attains the extremum.
C7_EarliestYearWinsTies ==
    Completed("summary") =>
        LET f == Whole(frequency_per_year)
            a == avg_magnitude_per_year
            earliest(P(_)) ==
                unique_years[CHOOSE i \in 1..Len(unique_years) :
                                P(i) /\ \A j \in 1..(i - 1) : ~P(j)]
            mostAt(i) == IsGreatest(f, i)
            fewestAt(i) == IsLeast(f, i)
            highestAt(i) == IsGreatest(a, i)
            lowestAt(i) == IsLeast(a, i)
        IN /\ summary.most = earliest(mostAt)
           /\ summary.fewest = earliest(fewestAt)
           /\ summary.highest = earliest(highestAt)
           /\ summary.lowest = earliest(lowestAt)

C7_Witness ==
    /\ Completed("summary")
    /\ Len(unique_years) = 3
    /\ frequency_per_year = <<1, 1, 1>>
    /\ avg_magnitude_per_year[2] = avg_magnitude_per_year[3]
    /\ Less(avg_magnitude_per_year[1], avg_magnitude_per_year[2])
    /\ summary.most = unique_years[1]
    /\ summary.highest = unique_years[2]

\* C8: in a run of the entry point the chart is written only after get_data
\* has returned and the extraction, aggregation and summary have completed;
\* once an error has been raised the run only stops, with the chart unwritten.
C8_ChartOnlyAfterPipeline ==
    mode = "run" =>
        /\ chart.written =>
              /\ Len(stages) >= 5
              /\ SubSeq(stages, 1, 5)
                    = <<"load", "extract", "analyze", "summary", "plot">>
        /\ error # "none" =>
              /\ ~chart.written
              /\ pc \in {"module_load", "load", "crashed"}

C8_Witness ==
    /\ mode = "run"
    /\ cache.kind = "absent"
    /\ error = "fetch:ConnectionError"
    /\ pc = "crashed"
    /\ ~chart.written

\* C9: once get_data(save_to_file = true) has fetched and persisted a record
\* set, get_data(use_local_file = true) returns a record set equal to it and
\* issues no remote query.
C9_RoundTrip ==
    [][(gd = "entry" /\ use_local_file /\ persisted.valid) =>
          /\ gd' = "returned"
          /\ result' = persisted.data
          /\ remoteQueries' = remoteQueries]_vars

C9_Witness ==
    /\ gd = "returned"
    /\ use_local_file
    /\ persisted.valid
    /\ calls = 2
    /\ remoteQueries = 1
    /\ cacheReads = 1
    /\ result = persisted.data
    /\ "features" \in DOMAIN result
    /\ Len(result.features) = 2

====
